---- MODULE Spec2Model ----
(***************************************************************************)
(* A model of the collaborative-canvas server: the per-room HistoryStore   *)
(* (history + redoStack), the RoomManager (rooms, userToRoom,              *)
(* socketToUser), the socket.io broadcast groups and the per-connection    *)
(* handlers of server/src/index.ts.  One action per socket handler; every  *)
(* handler runs to completion (Node's single-threaded event loop).         *)
(***************************************************************************)
EXTENDS Integers, Sequences, FiniteSets, TLC

(* ----------------------------- bounds ---------------------------------- *)
\* number of actions (randomUUID draws) ever appended
MaxActions == 2

\* number of handlers whose packets are followed onto the connections
MaxServed == 4

Conns == {"c1", "c2"}
RoomIds == {"main", "room2"}
Colors == {"#A"}
\* the server's Date.now() readings: an earlier and a later one, in any order
Times == {0, 1}
\* the clients' own Date.now() readings at startDrawing
StrokeTimes == {0}
MaxClock == 1                    \* the latest instant of a clock that only advances

\* `let currentRoomId: string | undefined` before any join
Undefined == "undefined"

STROKE_DRAW == "stroke_draw"
STROKE_ERASE == "stroke_erase"

(* ----------------------------- state ----------------------------------- *)
VARIABLES
    conn,           \* socket life cycle: "idle" (no socket under this id), "open"
    currentRoomId,  \* the closure variable of io.on('connection')
    sioRooms,       \* socket.io broadcast groups: room id -> set of sockets
    rooms,          \* RoomManager.rooms: room id -> users Map (insertion ordered)
    userToRoom,     \* RoomManager.userToRoom
    socketToUser,   \* RoomManager.socketToUser
    roomHistories,  \* Map<string, HistoryStore>
    nextId,         \* the next randomUUID() (fresh on every draw)
    emitted,        \* the events sent by the latest handler, in order
    acked,          \* the acknowledgement callback invoked by the latest handler
    last,           \* the latest handler: its event, socket, room and whether it passed its guard
    lastLog,        \* the latest HistoryStore mutation
    preUndo,        \* entries before the latest undo (kept over a directly following redo)
    asked,          \* the room id of each socket's latest join_room request
    served,         \* how many handlers have had their packets written out
    wire,           \* per socket: the reliable packets written and not yet received
    got,            \* per socket: the stamp of the reliable packet it received last
    logAt,          \* the entries of the handler's session after each served handler
    clientHistory,  \* per socket: `let history` of the client (main.ts)
    clock           \* the server's Date.now() where time is modelled as passing

\* the transports: followed only where the order of reception is at stake
wireVars == <<served, wire, got, logAt, clientHistory, clock>>

vars == <<conn, currentRoomId, sioRooms, rooms, userToRoom, socketToUser,
          roomHistories, nextId, emitted, acked, last, lastLog, preUndo, asked,
          served, wire, got, logAt, clientHistory, clock>>

(* --------------------------- Map helpers ------------------------------- *)
\* Map.prototype.set
MapSet(m, k, v) == [x \in (DOMAIN m) \cup {k} |-> IF x = k THEN v ELSE m[x]]

\* Map.prototype.delete
MapDelete(m, k) == [x \in (DOMAIN m) \ {k} |-> m[x]]

Last(s) == s[Len(s)]

Front(s) == SubSeq(s, 1, Len(s) - 1)

(* --------------------------- HistoryStore ------------------------------ *)
\* new HistoryStore()
NewHistoryStore == [history |-> <<>>, redoStack |-> <<>>]

\* the DrawingAction built by addStroke / addErase
MkAction(id, type, stroke, t) ==
    [id |-> id, type |-> type, userId |-> stroke.userId, timestamp |-> t, data |-> stroke]

\* a store that keeps the redo stack on append
HS_addStroke_keepRedo(s, stroke, id, t) ==
    [history |-> Append(s.history, MkAction(id, STROKE_DRAW, stroke, t)),
     redoStack |-> s.redoStack]

HS_addStroke(s, stroke, id, t) ==
    [history |-> Append(s.history, MkAction(id, STROKE_DRAW, stroke, t)),
     redoStack |-> <<>>]

HS_addErase(s, stroke, id, t) ==
    [history |-> Append(s.history, MkAction(id, STROKE_ERASE, stroke, t)),
     redoStack |-> <<>>]

\* an undo that takes the oldest action instead of the newest
HS_undo_fifo(s) ==
    IF Len(s.history) = 0 THEN s
    ELSE [history |-> Tail(s.history),
          redoStack |-> Append(s.redoStack, Head(s.history))]

\* an undo without the empty check: pop() gives undefined, which is pushed
HS_undo_noguard(s) ==
    IF Len(s.history) = 0
    THEN [history |-> <<>>,
          redoStack |-> Append(s.redoStack,
                          [id |-> 0, type |-> Undefined, userId |-> Undefined,
                           timestamp |-> 0,
                           data |-> [userId |-> Undefined, timestamp |-> 0,
                                     isFinished |-> FALSE]])]
    ELSE [history |-> Front(s.history),
          redoStack |-> Append(s.redoStack, Last(s.history))]

\* an undo cut short after the pop: the action is on neither stack
HS_undo_partial(s) ==
    IF Len(s.history) = 0 THEN s
    ELSE [history |-> Front(s.history), redoStack |-> s.redoStack]

\* an undo that pushes the last action without popping it
HS_undo_copy(s) ==
    IF Len(s.history) = 0 THEN s
    ELSE [history |-> s.history,
          redoStack |-> Append(s.redoStack, Last(s.history))]

HS_undo(s) ==
    IF Len(s.history) = 0 THEN s
    ELSE [history |-> Front(s.history),
          redoStack |-> Append(s.redoStack, Last(s.history))]

\* a redo that re-creates the action with a new timestamp
HS_redo_restamp(s) ==
    IF Len(s.redoStack) = 0 THEN s
    ELSE [history |-> Append(s.history,
                        [Last(s.redoStack) EXCEPT !.timestamp = @ + 1]),
          redoStack |-> Front(s.redoStack)]

\* a redo that brings back every undone action at once
HS_redo_all(s) ==
    IF Len(s.redoStack) = 0 THEN s
    ELSE [history |-> s.history \o
                        [i \in 1 .. Len(s.redoStack) |->
                            s.redoStack[Len(s.redoStack) + 1 - i]],
          redoStack |-> <<>>]

\* a redo that pushes the top of redoStack without popping it
HS_redo_peek(s) ==
    IF Len(s.redoStack) = 0 THEN s
    ELSE [history |-> Append(s.history, Last(s.redoStack)),
          redoStack |-> s.redoStack]

\* a redo that puts the action back at the front (unshift)
HS_redo_unshift(s) ==
    IF Len(s.redoStack) = 0 THEN s
    ELSE [history |-> <<Last(s.redoStack)>> \o s.history,
          redoStack |-> Front(s.redoStack)]

HS_redo(s) ==
    IF Len(s.redoStack) = 0 THEN s
    ELSE [history |-> Append(s.history, Last(s.redoStack)),
          redoStack |-> Front(s.redoStack)]

\* a snapshot that also hands out the undone actions
HS_getHistory_withUndone(s) == s.history \o s.redoStack

\* [...this.history]
HS_getHistory(s) == s.history

\* a clear that forgets to reset the redo stack
HS_clear_keepRedo(s) == [history |-> <<>>, redoStack |-> s.redoStack]

HS_clear(s) == [history |-> <<>>, redoStack |-> <<>>]

\* getHistoryStore: the Map after the lookup (the store is created when absent)
getHistoryStore(rh, roomId) ==
    IF roomId \in DOMAIN rh THEN rh ELSE MapSet(rh, roomId, NewHistoryStore)

(* --------------------------- RoomManager ------------------------------- *)
\* the User built by addUserToRoom; name is `User-` + the id's first characters
MkUser(socketId, color) == [id |-> socketId, color |-> color, name |-> socketId]

\* position of the key in an insertion-ordered Map (0: absent)
IndexOf(users, socketId) ==
    IF \E i \in 1 .. Len(users) : users[i].id = socketId
    THEN CHOOSE i \in 1 .. Len(users) : users[i].id = socketId
    ELSE 0

\* room.users.set(socketId, user): a present key keeps its position
UsersSet(users, user) ==
    IF IndexOf(users, user.id) = 0 THEN Append(users, user)
    ELSE [users EXCEPT ![IndexOf(users, user.id)] = user]

\* room.users.delete(socketId)
UsersDelete(users, socketId) ==
    LET keep == {i \in 1 .. Len(users) : users[i].id # socketId}
        F[i \in 0 .. Len(users)] ==
            IF i = 0 THEN <<>>
            ELSE IF i \in keep THEN Append(F[i - 1], users[i]) ELSE F[i - 1]
    IN F[Len(users)]

\* getUsersInRoom: Array.from(room.users.values()), [] for an unknown room
getUsersInRoom(rms, roomId) == IF roomId \in DOMAIN rms THEN rms[roomId] ELSE <<>>

\* getRoomIdForUser
getRoomIdForUser(u2r, socketId) ==
    IF socketId \in DOMAIN u2r THEN u2r[socketId] ELSE Undefined

\* addUserToRoom throws `Room <id> not found` unless the room was created
RoomExists(rms, roomId) == roomId \in DOMAIN rms

(* --------------------------- socket.io --------------------------------- *)
\* socket.leave(room)
SioLeave(sio, c, r) == [sio EXCEPT ![r] = @ \ {c}]

\* socket.join(room)
SioJoin(sio, c, r) == [sio EXCEPT ![r] = @ \cup {c}]

\* the socket is taken out of every room when it closes
SioLeaveAll(sio, c) == [r \in DOMAIN sio |-> sio[r] \ {c}]

\* io.emit: an emit that goes to every open socket, whatever room was named
Emit_toAll(ev, to, data, volatile) ==
    [ev |-> ev, to |-> {d \in Conns : conn[d] = "open"}, data |-> data,
     volatile |-> volatile]

\* one emit: the event, its recipients, its payload and the volatile flag
Emit(ev, to, data, volatile) == [ev |-> ev, to |-> to, data |-> data, volatile |-> volatile]

NoData == <<>>

NoAck == [conn |-> Undefined, arg |-> <<>>]

Ack(c, arg) == [conn |-> c, arg |-> arg]

(* ---------------------- record of the latest steps --------------------- *)
Handled(op, c, r, ok) == [op |-> op, conn |-> c, room |-> r, ok |-> ok]

NoLog == [op |-> "none", room |-> Undefined, preH |-> 0, preR |-> 0, ret |-> <<>>]

\* the HistoryStore operation op applied to store s of room r: the lengths of
\* history and redoStack before it, and the sequence it returned (undo, redo)
Logged(op, r, s, ret) ==
    [op |-> op, room |-> r, preH |-> Len(s.history), preR |-> Len(s.redoStack),
     ret |-> ret]

PreUndoAfter(op, r, s) ==
    IF op = "undo" /\ Len(s.history) > 0 THEN s.history
    ELSE IF op = "redo" /\ lastLog.op = "undo" /\ lastLog.room = r THEN preUndo
    ELSE <<>>

NoLogStep == UNCHANGED <<lastLog, preUndo>>

(* ------------------------------ Init ----------------------------------- *)
Init ==
    /\ conn = [c \in Conns |-> "idle"]
    /\ currentRoomId = [c \in Conns |-> Undefined]
    /\ sioRooms = [r \in RoomIds |-> {}]
    /\ rooms = [r \in {"main"} |-> <<>>]
    /\ userToRoom = [c \in {} |-> Undefined]
    /\ socketToUser = [c \in {} |-> MkUser(c, "#A")]
    /\ roomHistories = [r \in {"main"} |-> NewHistoryStore]
    /\ nextId = 1
    /\ emitted = <<>>
    /\ acked = NoAck
    /\ last = Handled("none", Undefined, Undefined, FALSE)
    /\ lastLog = NoLog
    /\ preUndo = <<>>
    /\ asked = [c \in Conns |-> Undefined]
    /\ served = 0
    /\ wire = [c \in Conns |-> <<>>]
    /\ got = [c \in Conns |-> <<0, 0>>]
    /\ logAt = <<>>
    /\ clientHistory = [c \in Conns |-> <<>>]
    /\ clock = 0

(* ---------------------------- client inputs ---------------------------- *)
\* the Stroke a client builds in startDrawing .. finishDrawing: userId is its
\* socket id, timestamp its own Date.now() at startDrawing
ClientStrokes(c, finished) ==
    {[userId |-> c, timestamp |-> ct, isFinished |-> f] : ct \in StrokeTimes, f \in finished}

(* ------------------------------ handlers ------------------------------- *)
NoHandler == Handled("none", Undefined, Undefined, FALSE)

\* nothing of an earlier handler is waiting to be written to the transports
Quiet == last = NoHandler

\* socket.io writes the packets of the latest handler (its emits and its
\* acknowledgement) to the transports; the next event is dispatched after it
Transmit ==
    /\ ~Quiet
    /\ UNCHANGED wireVars
    /\ emitted' = <<>>
    /\ acked' = NoAck
    /\ last' = NoHandler
    /\ UNCHANGED <<asked, conn, currentRoomId, sioRooms, rooms, userToRoom, socketToUser,
                   roomHistories, nextId, lastLog, preUndo>>

\* io.on('connection'): a new socket, its `let currentRoomId` undefined
Connect(c) ==
    /\ Quiet
    /\ UNCHANGED wireVars
    /\ conn[c] = "idle"
    /\ conn' = [conn EXCEPT ![c] = "open"]
    /\ emitted' = <<>>
    /\ acked' = NoAck
    /\ last' = Handled("connection", c, Undefined, TRUE)
    /\ NoLogStep
    /\ UNCHANGED <<asked, currentRoomId, sioRooms, rooms, userToRoom, socketToUser,
                   roomHistories, nextId>>

\* socket.on('join_room')
JoinRoom(c, roomId, color) ==
    /\ Quiet
    /\ UNCHANGED wireVars
    /\ conn[c] = "open"
    /\ LET cur == currentRoomId[c]
           \* Leave previous room if in one
           sio1 == IF cur # Undefined THEN SioLeave(sioRooms, c, cur) ELSE sioRooms
           prevRoom == getRoomIdForUser(userToRoom, c)
           em1 == IF cur # Undefined /\ prevRoom # Undefined
                  THEN <<Emit("users_update", sio1[prevRoom],
                              getUsersInRoom(rooms, prevRoom), FALSE)>>
                  ELSE <<>>
       IN IF ~RoomExists(rooms, roomId)
          THEN \* addUserToRoom throws; the catch block reports to the caller
               /\ sioRooms' = sio1
               /\ emitted' = em1
               /\ acked' = Ack(c, "Room not found")
               /\ last' = Handled("join_room", c, roomId, FALSE)
               /\ UNCHANGED <<currentRoomId, rooms, userToRoom, socketToUser,
                              roomHistories>>
          ELSE LET user == MkUser(c, color)
                   rooms1 == [rooms EXCEPT ![roomId] = UsersSet(@, user)]
                   sio2 == SioJoin(sio1, c, roomId)
                   rh1 == getHistoryStore(roomHistories, roomId)
                   history == HS_getHistory(rh1[roomId])
               IN /\ rooms' = rooms1
                  /\ userToRoom' = MapSet(userToRoom, c, roomId)
                  /\ socketToUser' = MapSet(socketToUser, c, user)
                  /\ currentRoomId' = [currentRoomId EXCEPT ![c] = roomId]
                  /\ sioRooms' = sio2
                  /\ roomHistories' = rh1
                  /\ emitted' = em1 \o
                        <<Emit("history_sync", {c}, history, FALSE),
                          Emit("users_update", sio2[roomId],
                               getUsersInRoom(rooms1, roomId), FALSE)>>
                  /\ acked' = Ack(c, "ok")
                  /\ last' = Handled("join_room", c, roomId, TRUE)
    /\ asked' = [asked EXCEPT ![c] = roomId]
    /\ NoLogStep
    /\ UNCHANGED <<conn, nextId>>

\* a handler that acknowledges before it looks at currentRoomId
Rejected_acked(op, c) ==
    /\ emitted' = <<>>
    /\ acked' = Ack(c, "ok")
    /\ last' = Handled(op, c, Undefined, FALSE)
    /\ NoLogStep
    /\ UNCHANGED <<asked, conn, currentRoomId, sioRooms, rooms, userToRoom, socketToUser,
                   roomHistories, nextId>>

\* a guard that lets the event through to the other open sockets
Rejected_echo(op, c) ==
    /\ emitted' = <<Emit(op, {d \in Conns \ {c} : conn[d] = "open"}, NoData, FALSE)>>
    /\ acked' = NoAck
    /\ last' = Handled(op, c, Undefined, FALSE)
    /\ NoLogStep
    /\ UNCHANGED <<asked, conn, currentRoomId, sioRooms, rooms, userToRoom, socketToUser,
                   roomHistories, nextId>>

\* a handler that returns at `if (!currentRoomId) return;`
Rejected(op, c) ==
    /\ emitted' = <<>>
    /\ acked' = NoAck
    /\ last' = Handled(op, c, Undefined, FALSE)
    /\ NoLogStep
    /\ UNCHANGED <<asked, conn, currentRoomId, sioRooms, rooms, userToRoom, socketToUser,
                   roomHistories, nextId>>

\* a draw_line handler that also stores the in-progress stroke
DrawLine_stored(c, data) ==
    /\ Quiet
    /\ UNCHANGED wireVars
    /\ conn[c] = "open"
    /\ IF currentRoomId[c] = Undefined THEN Rejected("draw_line", c)
       ELSE LET r == currentRoomId[c]
                rh1 == getHistoryStore(roomHistories, r)
            IN /\ nextId <= MaxActions
               /\ roomHistories' = [rh1 EXCEPT ![r] = HS_addStroke(@, data, nextId, 0)]
               /\ nextId' = nextId + 1
               /\ emitted' = <<Emit("draw_line", sioRooms[r] \ {c}, data, FALSE)>>
               /\ acked' = Ack(c, "ok")
               /\ last' = Handled("draw_line", c, r, TRUE)
               /\ NoLogStep
               /\ UNCHANGED <<asked, conn, currentRoomId, sioRooms, rooms, userToRoom,
                              socketToUser>>

\* socket.on('draw_line')
DrawLine(c, data) ==
    /\ Quiet
    /\ UNCHANGED wireVars
    /\ conn[c] = "open"
    /\ IF currentRoomId[c] = Undefined THEN Rejected("draw_line", c)
       ELSE /\ emitted' = <<Emit("draw_line", sioRooms[currentRoomId[c]] \ {c}, data, FALSE)>>
            /\ acked' = Ack(c, "ok")
            /\ last' = Handled("draw_line", c, currentRoomId[c], TRUE)
            /\ NoLogStep
            /\ UNCHANGED <<asked, conn, currentRoomId, sioRooms, rooms, userToRoom,
                           socketToUser, roomHistories, nextId>>

\* socket.on('draw_finish')
DrawFinish(c, data, t) ==
    /\ Quiet
    /\ UNCHANGED wireVars
    /\ conn[c] = "open"
    /\ IF currentRoomId[c] = Undefined THEN Rejected("draw_finish", c)
       ELSE LET r == currentRoomId[c]
                rh1 == getHistoryStore(roomHistories, r)
            IN /\ nextId <= MaxActions
               /\ roomHistories' = [rh1 EXCEPT ![r] = HS_addStroke(@, data, nextId, t)]
               /\ nextId' = nextId + 1
               /\ emitted' = <<>>
               /\ acked' = Ack(c, "ok")
               /\ last' = Handled("draw_finish", c, r, TRUE)
               /\ lastLog' = Logged("addStroke", r, rh1[r], <<>>)
               /\ preUndo' = PreUndoAfter("addStroke", r, rh1[r])
               /\ UNCHANGED <<asked, conn, currentRoomId, sioRooms, rooms, userToRoom,
                              socketToUser>>

\* socket.on('erase')
Erase(c, data, t) ==
    /\ Quiet
    /\ UNCHANGED wireVars
    /\ conn[c] = "open"
    /\ IF currentRoomId[c] = Undefined THEN Rejected("erase", c)
       ELSE LET r == currentRoomId[c]
                rh1 == getHistoryStore(roomHistories, r)
            IN /\ nextId <= MaxActions
               /\ roomHistories' = [rh1 EXCEPT ![r] = HS_addErase(@, data, nextId, t)]
               /\ nextId' = nextId + 1
               /\ emitted' = <<Emit("erase", sioRooms[r] \ {c}, data, FALSE)>>
               /\ acked' = Ack(c, "ok")
               /\ last' = Handled("erase", c, r, TRUE)
               /\ lastLog' = Logged("addErase", r, rh1[r], <<>>)
               /\ preUndo' = PreUndoAfter("addErase", r, rh1[r])
               /\ UNCHANGED <<asked, conn, currentRoomId, sioRooms, rooms, userToRoom,
                              socketToUser>>

\* the CursorPosition built by the cursor_move handler
MkCursor(c, position, user) ==
    [userId |-> c, x |-> position.x, y |-> position.y,
     color |-> user.color, name |-> user.name]

\* socket.on('cursor_move')
CursorMove(c, position) ==
    /\ Quiet
    /\ UNCHANGED wireVars
    /\ conn[c] = "open"
    /\ IF currentRoomId[c] = Undefined \/ c \notin DOMAIN socketToUser
       THEN Rejected("cursor_move", c)
       ELSE /\ emitted' = <<Emit("cursor_update", sioRooms[currentRoomId[c]] \ {c},
                                 MkCursor(c, position, socketToUser[c]), TRUE)>>
            /\ acked' = NoAck
            /\ last' = Handled("cursor_move", c, currentRoomId[c], TRUE)
            /\ NoLogStep
            /\ UNCHANGED <<asked, conn, currentRoomId, sioRooms, rooms, userToRoom,
                           socketToUser, roomHistories, nextId>>

\* socket.on('undo')
Undo(c) ==
    /\ Quiet
    /\ UNCHANGED wireVars
    /\ conn[c] = "open"
    /\ IF currentRoomId[c] = Undefined THEN Rejected("undo", c)
       ELSE LET r == currentRoomId[c]
                rh1 == getHistoryStore(roomHistories, r)
                s1 == HS_undo(rh1[r])
                updatedHistory == s1.history
            IN /\ roomHistories' = [rh1 EXCEPT ![r] = s1]
               /\ emitted' = <<Emit("history_sync", sioRooms[r], updatedHistory, FALSE)>>
               /\ acked' = Ack(c, updatedHistory)
               /\ last' = Handled("undo", c, r, TRUE)
               /\ lastLog' = Logged("undo", r, rh1[r], updatedHistory)
               /\ preUndo' = PreUndoAfter("undo", r, rh1[r])
               /\ UNCHANGED <<asked, conn, currentRoomId, sioRooms, rooms, userToRoom,
                              socketToUser, nextId>>

\* socket.on('redo')
Redo(c) ==
    /\ Quiet
    /\ UNCHANGED wireVars
    /\ conn[c] = "open"
    /\ IF currentRoomId[c] = Undefined THEN Rejected("redo", c)
       ELSE LET r == currentRoomId[c]
                rh1 == getHistoryStore(roomHistories, r)
                s1 == HS_redo(rh1[r])
                updatedHistory == s1.history
            IN /\ roomHistories' = [rh1 EXCEPT ![r] = s1]
               /\ emitted' = <<Emit("history_sync", sioRooms[r], updatedHistory, FALSE)>>
               /\ acked' = Ack(c, updatedHistory)
               /\ last' = Handled("redo", c, r, TRUE)
               /\ lastLog' = Logged("redo", r, rh1[r], updatedHistory)
               /\ preUndo' = PreUndoAfter("redo", r, rh1[r])
               /\ UNCHANGED <<asked, conn, currentRoomId, sioRooms, rooms, userToRoom,
                              socketToUser, nextId>>

\* socket.on('clear_canvas')
ClearCanvas(c) ==
    /\ Quiet
    /\ UNCHANGED wireVars
    /\ conn[c] = "open"
    /\ IF currentRoomId[c] = Undefined THEN Rejected("clear_canvas", c)
       ELSE LET r == currentRoomId[c]
                rh1 == getHistoryStore(roomHistories, r)
            IN /\ roomHistories' = [rh1 EXCEPT ![r] = HS_clear(@)]
               /\ emitted' = <<Emit("canvas_cleared", sioRooms[r], NoData, FALSE),
                               Emit("history_sync", sioRooms[r], <<>>, FALSE)>>
               /\ acked' = Ack(c, "ok")
               /\ last' = Handled("clear_canvas", c, r, TRUE)
               /\ lastLog' = Logged("clear", r, rh1[r], <<>>)
               /\ preUndo' = PreUndoAfter("clear", r, rh1[r])
               /\ UNCHANGED <<asked, conn, currentRoomId, sioRooms, rooms, userToRoom,
                              socketToUser, nextId>>

\* the three maps of the RoomManager
RoomManagerState ==
    [rooms |-> rooms, userToRoom |-> userToRoom, socketToUser |-> socketToUser]

\* a removeUser that marks the socket as being in no room instead of deleting it
RM_removeUser_setUndefined(rm, socketId) ==
    [rooms |-> rm.rooms,
     userToRoom |-> MapSet(rm.userToRoom, socketId, Undefined),
     socketToUser |-> MapDelete(rm.socketToUser, socketId)]

\* RoomManager.removeUser as a function of the three maps
RM_removeUser(rm, socketId) ==
    LET roomId == getRoomIdForUser(rm.userToRoom, socketId)
    IN [rooms |-> IF roomId # Undefined /\ roomId \in DOMAIN rm.rooms
                  THEN [rm.rooms EXCEPT ![roomId] = UsersDelete(@, socketId)]
                  ELSE rm.rooms,
        userToRoom |-> IF roomId # Undefined THEN MapDelete(rm.userToRoom, socketId)
                       ELSE rm.userToRoom,
        socketToUser |-> MapDelete(rm.socketToUser, socketId)]

\* roomManager.removeUser(socketId)
removeUser(c) ==
    LET rm == RM_removeUser(RoomManagerState, c)
    IN /\ rooms' = rm.rooms
       /\ userToRoom' = rm.userToRoom
       /\ socketToUser' = rm.socketToUser

\* a disconnect that takes the departing user's actions out of the logs
Disconnect_purge(c) ==
    /\ Quiet
    /\ UNCHANGED wireVars
    /\ conn[c] = "open"
    /\ conn' = [conn EXCEPT ![c] = "idle"]
    /\ sioRooms' = SioLeaveAll(sioRooms, c)
    /\ IF currentRoomId[c] # Undefined
       THEN /\ removeUser(c)
            /\ emitted' = <<Emit("users_update", sioRooms'[currentRoomId[c]],
                                 getUsersInRoom(rooms', currentRoomId[c]), FALSE)>>
       ELSE /\ emitted' = <<>>
            /\ UNCHANGED <<rooms, userToRoom, socketToUser>>
    /\ acked' = NoAck
    /\ last' = Handled("disconnect", c, currentRoomId[c], currentRoomId[c] # Undefined)
    /\ currentRoomId' = [currentRoomId EXCEPT ![c] = Undefined]
    /\ asked' = [asked EXCEPT ![c] = Undefined]
    /\ NoLogStep
    /\ roomHistories' =
          [r \in DOMAIN roomHistories |->
              [history |-> SelectSeq(roomHistories[r].history, LAMBDA a : a.userId # c),
               redoStack |-> SelectSeq(roomHistories[r].redoStack,
                                       LAMBDA a : a.userId # c)]]
    /\ UNCHANGED nextId

\* socket.on('disconnect'): socket.io has taken the socket out of its rooms;
\* the socket and the closure holding its currentRoomId are gone afterwards
Disconnect(c) ==
    /\ Quiet
    /\ UNCHANGED wireVars
    /\ conn[c] = "open"
    /\ conn' = [conn EXCEPT ![c] = "idle"]
    /\ sioRooms' = SioLeaveAll(sioRooms, c)
    /\ IF currentRoomId[c] # Undefined
       THEN /\ removeUser(c)
            /\ emitted' = <<Emit("users_update", sioRooms'[currentRoomId[c]],
                                 getUsersInRoom(rooms', currentRoomId[c]), FALSE)>>
       ELSE /\ emitted' = <<>>
            /\ UNCHANGED <<rooms, userToRoom, socketToUser>>
    /\ acked' = NoAck
    /\ last' = Handled("disconnect", c, currentRoomId[c], currentRoomId[c] # Undefined)
    /\ currentRoomId' = [currentRoomId EXCEPT ![c] = Undefined]
    /\ asked' = [asked EXCEPT ![c] = Undefined]
    /\ NoLogStep
    /\ UNCHANGED <<roomHistories, nextId>>

Positions == {[x |-> 0, y |-> 0]}

Next ==
    \/ \E c \in Conns : Connect(c)
    \/ \E c \in Conns, r \in RoomIds, col \in Colors : JoinRoom(c, r, col)
    \/ \E c \in Conns : \E d \in ClientStrokes(c, {FALSE}) : DrawLine(c, d)
    \/ \E c \in Conns, t \in Times : \E d \in ClientStrokes(c, {TRUE}) : DrawFinish(c, d, t)
    \/ \E c \in Conns, t \in Times : \E d \in ClientStrokes(c, {TRUE}) : Erase(c, d, t)
    \/ \E c \in Conns, p \in Positions : CursorMove(c, p)
    \/ \E c \in Conns : Undo(c)
    \/ \E c \in Conns : Redo(c)
    \/ \E c \in Conns : ClearCanvas(c)
    \/ \E c \in Conns : Disconnect(c)
    \/ Transmit

Spec == Init /\ [][Next]_vars

(* ------------------------- reading the state --------------------------- *)
\* entries of a room's log ([] while the room has no HistoryStore)
Entries(r) == IF r \in DOMAIN roomHistories THEN roomHistories[r].history ELSE <<>>

RedoStack(r) == IF r \in DOMAIN roomHistories THEN roomHistories[r].redoStack ELSE <<>>

EntriesAfter(r) == IF r \in DOMAIN roomHistories' THEN roomHistories'[r].history ELSE <<>>

RedoStackAfter(r) == IF r \in DOMAIN roomHistories' THEN roomHistories'[r].redoStack ELSE <<>>

ActionIds(q) == {q[i].id : i \in 1 .. Len(q)}

MaxOf(S) == CHOOSE x \in S : \A y \in S : y <= x

MinOf(S) == CHOOSE x \in S : \A y \in S : x <= y

\* the step is the handler `op`, run past its currentRoomId guard
Handles(op) == last'.op = op /\ last'.ok

Appends == {"addStroke", "addErase"}

(* ---------------------------- transports ------------------------------- *)
\* stamp <<n, k>>: the k-th emit of the handler served n-th
Before(a, b) == a[1] < b[1] \/ (a[1] = b[1] /\ a[2] < b[2])

\* the packets the latest handler addressed to socket c, in the order of its
\* emits; a volatile packet is not buffered
PacketsFor(c, n) ==
    LET F[i \in 0 .. Len(emitted)] ==
            IF i = 0 THEN <<>>
            ELSE IF c \in emitted[i].to /\ ~emitted[i].volatile
                 THEN Append(F[i - 1], [stamp |-> <<n, i>>, ev |-> emitted[i].ev,
                                        data |-> emitted[i].data])
                 ELSE F[i - 1]
    IN F[Len(emitted)]

\* Transmit, with the packets followed onto each recipient's connection; the
\* buffer of a socket that has closed is dropped with it
TransmitWire ==
    /\ ~Quiet
    /\ served < MaxServed
    /\ served' = served + 1
    /\ logAt' = Append(logAt, Entries(last.room))
    /\ wire' = [c \in Conns |->
                  IF last.op = "disconnect" /\ c = last.conn THEN <<>>
                  ELSE wire[c] \o PacketsFor(c, served + 1)]
    /\ got' = [c \in Conns |->
                  IF last.op = "disconnect" /\ c = last.conn THEN <<0, 0>> ELSE got[c]]
    /\ clientHistory' = [c \in Conns |->
                  IF last.op = "disconnect" /\ c = last.conn THEN <<>>
                  ELSE clientHistory[c]]
    /\ UNCHANGED clock
    /\ emitted' = <<>>
    /\ acked' = NoAck
    /\ last' = NoHandler
    /\ UNCHANGED <<asked, conn, currentRoomId, sioRooms, rooms, userToRoom, socketToUser,
                   roomHistories, nextId, lastLog, preUndo>>

\* the client's handlers: onHistorySync replaces `history`; onDrawLine,
\* onErase, onUsersUpdate and onCanvasCleared leave it alone
onPacket(history, packet) ==
    IF packet.ev = "history_sync" THEN packet.data ELSE history

\* a transport that hands over the newest buffered packet first
Receive_newest(c) ==
    /\ conn[c] = "open"
    /\ wire[c] # <<>>
    /\ got' = [got EXCEPT ![c] = Last(wire[c]).stamp]
    /\ wire' = [wire EXCEPT ![c] = Front(@)]
    /\ clientHistory' = [clientHistory EXCEPT ![c] = onPacket(@, Last(wire[c]))]
    /\ UNCHANGED clock
    /\ UNCHANGED <<asked, conn, currentRoomId, sioRooms, rooms, userToRoom, socketToUser,
                   roomHistories, nextId, emitted, acked, last, lastLog, preUndo,
                   served, logAt>>

\* the client's socket receives the oldest packet buffered on its connection
Receive(c) ==
    /\ conn[c] = "open"
    /\ wire[c] # <<>>
    /\ got' = [got EXCEPT ![c] = Head(wire[c]).stamp]
    /\ wire' = [wire EXCEPT ![c] = Tail(@)]
    /\ clientHistory' = [clientHistory EXCEPT ![c] = onPacket(@, Head(wire[c]))]
    /\ UNCHANGED clock
    /\ UNCHANGED <<asked, conn, currentRoomId, sioRooms, rooms, userToRoom, socketToUser,
                   roomHistories, nextId, emitted, acked, last, lastLog, preUndo,
                   served, logAt>>

NextWire ==
    \/ \E c \in Conns : Connect(c)
    \/ \E c \in Conns, r \in RoomIds, col \in Colors : JoinRoom(c, r, col)
    \/ \E c \in Conns : \E d \in ClientStrokes(c, {FALSE}) : DrawLine(c, d)
    \/ \E c \in Conns, t \in Times : \E d \in ClientStrokes(c, {TRUE}) : DrawFinish(c, d, t)
    \/ \E c \in Conns, t \in Times : \E d \in ClientStrokes(c, {TRUE}) : Erase(c, d, t)
    \/ \E c \in Conns, p \in Positions : CursorMove(c, p)
    \/ \E c \in Conns : Undo(c)
    \/ \E c \in Conns : Redo(c)
    \/ \E c \in Conns : ClearCanvas(c)
    \/ \E c \in Conns : Disconnect(c)
    \/ TransmitWire
    \/ \E c \in Conns : Receive(c)

SpecWire == Init /\ [][NextWire]_vars

(* ------------------------- rosters and colours ------------------------- *)
\* two of the 16^6 strings generateRandomColor can return; every call draws
\* anew, whatever the colours already in the room
RandomColors == {"#A", "#B"}

\* the requests that change a roster, with the colour drawn at random
NextRoster ==
    \/ \E c \in Conns : Connect(c)
    \/ \E c \in Conns, r \in RoomIds, col \in RandomColors : JoinRoom(c, r, col)
    \/ \E c \in Conns : Disconnect(c)
    \/ Transmit

SpecRoster == Init /\ [][NextRoster]_vars

(* ------------------------------ gestures ------------------------------- *)
\* the requests of a drawing client: with the eraser, continueDrawing sends
\* the stroke so far as `erase` (isFinished false) and finishDrawing sends it
\* once more (isFinished true); with the brush they send draw_line and
\* draw_finish
NextGesture ==
    \/ \E c \in Conns : Connect(c)
    \/ \E c \in Conns, col \in Colors : JoinRoom(c, "main", col)
    \/ \E c \in Conns : \E d \in ClientStrokes(c, {FALSE}) : DrawLine(c, d)
    \/ \E c \in Conns, t \in Times : \E d \in ClientStrokes(c, {TRUE}) : DrawFinish(c, d, t)
    \/ \E c \in Conns, t \in Times : \E d \in ClientStrokes(c, {FALSE, TRUE}) : Erase(c, d, t)
    \/ \E c \in Conns : Undo(c)
    \/ Transmit

SpecGesture == Init /\ [][NextGesture]_vars

(* -------------------------- a clock that advances ---------------------- *)
\* time passes on the server between two handlers
Tick ==
    /\ clock < MaxClock
    /\ clock' = clock + 1
    /\ UNCHANGED <<conn, currentRoomId, sioRooms, rooms, userToRoom, socketToUser,
                   roomHistories, nextId, emitted, acked, last, lastLog, preUndo,
                   asked, served, wire, got, logAt, clientHistory>>

\* the handlers that reach a log, each append stamped with Date.now() = clock
NextMonotone ==
    \/ \E c \in Conns : Connect(c)
    \/ \E c \in Conns, r \in RoomIds, col \in Colors : JoinRoom(c, r, col)
    \/ \E c \in Conns : \E d \in ClientStrokes(c, {TRUE}) : DrawFinish(c, d, clock)
    \/ \E c \in Conns : \E d \in ClientStrokes(c, {TRUE}) : Erase(c, d, clock)
    \/ \E c \in Conns : Undo(c)
    \/ \E c \in Conns : Redo(c)
    \/ \E c \in Conns : ClearCanvas(c)
    \/ Transmit
    \/ Tick

SpecMonotone == Init /\ [][NextMonotone]_vars

(* ------------------------------ claims --------------------------------- *)

\* C1: undo() directly followed by redo() on the same log gives back exactly
\* the entries that were there before the undo, the restored action with the
\* id and timestamp it had.
C1_UndoRedoRestores ==
    (lastLog.op = "redo" /\ preUndo # <<>>) => Entries(lastLog.room) = preUndo

C1_Witness ==
    /\ lastLog.op = "redo"
    /\ Len(preUndo) >= 2
    /\ Entries(lastLog.room) = preUndo
    /\ last.op = "redo"
    /\ last.conn # Last(preUndo).userId
    /\ Last(preUndo).timestamp # preUndo[1].timestamp

\* C2: an append leaves redoStack empty whatever it held; an action that is
\* in neither entries nor redoStack never comes back into entries, and a redo
\* right after an append changes nothing.
C2_AppendDiscardsRedo ==
    [][/\ \A r \in RoomIds :
            (last'.room = r /\ (Handles("draw_finish") \/ Handles("erase")))
                => RedoStackAfter(r) = <<>>
       /\ \/ roomHistories' = roomHistories
          \/ \A r \in RoomIds :
                (ActionIds(EntriesAfter(r)) \cap (1 .. (nextId - 1)))
                    \subseteq (ActionIds(Entries(r)) \cup ActionIds(RedoStack(r)))
       /\ \A r \in RoomIds :
            (lastLog.op \in Appends /\ lastLog.room = r /\ last'.room = r /\ Handles("redo"))
                => (EntriesAfter(r) = Entries(r) /\ RedoStackAfter(r) = <<>>)
      ]_vars

C2_Witness ==
    /\ lastLog.op \in Appends
    /\ lastLog.preR > 0
    /\ RedoStack(lastLog.room) = <<>>
    /\ Len(Entries(lastLog.room)) = lastLog.preH + 1

\* C3: undo takes the most recently appended action still in entries,
\* whoever authored it and whoever asks; undos in a row take actions in
\* reverse append order, and a redo brings back the most recently undone one.
C3_UndoIsGlobalLifo ==
    [][\A r \in RoomIds :
        /\ (last'.room = r /\ Handles("undo") /\ Entries(r) # <<>>) =>
              LET removed == Last(RedoStackAfter(r))
              IN /\ removed.id = MaxOf(ActionIds(Entries(r)))
                 /\ EntriesAfter(r) = SelectSeq(Entries(r), LAMBDA a : a.id # removed.id)
                 /\ Front(RedoStackAfter(r)) = RedoStack(r)
                 /\ \A i \in 1 .. Len(RedoStack(r)) : RedoStack(r)[i].id > removed.id
        /\ (last'.room = r /\ Handles("redo") /\ RedoStack(r) # <<>>) =>
              LET restored == Last(EntriesAfter(r))
              IN /\ restored.id = MinOf(ActionIds(RedoStack(r)))
                 /\ restored = Last(RedoStack(r))
                 /\ Front(EntriesAfter(r)) = Entries(r)
                 /\ RedoStackAfter(r) = Front(RedoStack(r))
      ]_vars

C3_Witness ==
    /\ last.op = "undo"
    /\ lastLog.op = "undo"
    /\ Len(RedoStack(lastLog.room)) >= 2
    /\ last.conn # Last(RedoStack(lastLog.room)).userId
    /\ last.conn = RedoStack(lastLog.room)[1].userId

C5_ClearCanBeUndone ==
    [][\A r \in RoomIds :
        (lastLog.op = "clear" /\ lastLog.room = r /\ lastLog.preH > 0
            /\ last'.room = r /\ Handles("undo"))
          => (Len(EntriesAfter(r)) = lastLog.preH /\ Len(lastLog'.ret) = lastLog.preH)
      ]_vars

\* C6: the length of entries changes by +1 on an append, by -1 on an undo of
\* a non-empty log, by +1 on a redo with a non-empty redoStack (else 0), to 0
\* on a clear, and not at all in any other step.
C6_LengthChanges ==
    [][\A r \in RoomIds :
        LET before == Len(Entries(r))
            after == Len(EntriesAfter(r))
        IN IF last'.room = r /\ last'.ok
           THEN CASE last'.op \in {"draw_finish", "erase"} -> after = before + 1
                  [] last'.op = "undo" -> after = IF before > 0 THEN before - 1 ELSE 0
                  [] last'.op = "redo" ->
                        after = IF RedoStack(r) # <<>> THEN before + 1 ELSE before
                  [] last'.op = "clear_canvas" -> after = 0
                  [] OTHER -> after = before
           ELSE after = before
      ]_vars

C6_Witness ==
    /\ lastLog.op = "redo"
    /\ lastLog.preR >= 2
    /\ Len(Entries(lastLog.room)) = lastLog.preH + 1
    /\ Len(RedoStack(lastLog.room)) = lastLog.preR - 1

\* C7: undo on an empty log and redo with an empty redoStack change neither
\* sequence, raise nothing (the caller is acknowledged) and return the
\* current entries.
C7_EmptyUndoRedoAreNoOps ==
    [][\A r \in RoomIds :
        ((last'.room = r /\ Handles("undo") /\ Entries(r) = <<>>)
            \/ (last'.room = r /\ Handles("redo") /\ RedoStack(r) = <<>>))
          => /\ EntriesAfter(r) = Entries(r)
             /\ RedoStackAfter(r) = RedoStack(r)
             /\ lastLog'.ret = Entries(r)
             /\ acked' = Ack(last'.conn, Entries(r))
      ]_vars

C7_Witness ==
    /\ lastLog.op = "redo"
    /\ lastLog.preR = 0
    /\ lastLog.preH >= 2
    /\ Len(Entries(lastLog.room)) = lastLog.preH
    /\ lastLog.ret = Entries(lastLog.room)

\* C8: an action stored for a connection is in the log of the session that
\* connection asked to join, and in the log of no other session.
C8_SessionIsolation ==
    (last.op \in {"draw_finish", "erase"} /\ last.ok) =>
        /\ (nextId - 1) \in ActionIds(Entries(asked[last.conn]))
        /\ \A r \in RoomIds \ {asked[last.conn]} :
              (nextId - 1) \notin (ActionIds(Entries(r)) \cup ActionIds(RedoStack(r)))

\* C9: a connection that joins is sent one history_sync, to itself alone,
\* whose payload is the session's entries at that moment: in log order,
\* nothing twice, nothing missing.
C9_JoinConsistency ==
    (last.op = "join_room" /\ last.ok) =>
        LET syncs == {i \in 1 .. Len(emitted) : emitted[i].ev = "history_sync"}
        IN /\ Cardinality(syncs) = 1
           /\ \A i \in syncs :
                /\ emitted[i].to = {last.conn}
                /\ emitted[i].data = Entries(last.room)
                /\ Cardinality(ActionIds(emitted[i].data)) = Len(Entries(last.room))

C9_Witness ==
    /\ last.op = "join_room"
    /\ last.ok
    /\ Len(Entries(last.room)) >= 1
    /\ RedoStack(last.room) # <<>>
    /\ \E i \in 1 .. Len(emitted) :
          emitted[i].ev = "history_sync" /\ Len(emitted[i].data) >= 1

\* C10: a join that names any session id succeeds, creating the session when
\* it was never referenced before.
C10_LazySessionCreation ==
    (last.op = "join_room") =>
        /\ last.ok
        /\ acked = Ack(last.conn, "ok")
        /\ currentRoomId[last.conn] = last.room
        /\ last.conn \in sioRooms[last.room]
        /\ IndexOf(getUsersInRoom(rooms, last.room), last.conn) # 0

\* the events named ev among those the latest handler sent
Sent(em, ev) == {i \in 1 .. Len(em) : em[i].ev = ev}

\* C11: the first join made to a session that nobody has joined and nothing
\* was appended to is answered with an empty history_sync and a users_update
\* that lists the joining member and nobody else.
C11_FirstJoinOfNewSession ==
    [][\A r \in RoomIds :
          (/\ last'.op = "join_room"
           /\ last'.room = r
           /\ nextId = 1
           /\ \A c \in Conns : asked[c] = Undefined
           /\ getUsersInRoom(rooms, r) = <<>>
           /\ Entries(r) = <<>> /\ RedoStack(r) = <<>>)
          => /\ \E i \in Sent(emitted', "history_sync") :
                   emitted'[i].to = {last'.conn} /\ emitted'[i].data = <<>>
             /\ \E i \in Sent(emitted', "users_update") :
                   /\ last'.conn \in emitted'[i].to
                   /\ Len(emitted'[i].data) = 1
                   /\ emitted'[i].data[1].id = last'.conn
             /\ Len(getUsersInRoom(rooms', r)) = 1
      ]_vars

\* the sessions whose roster lists socket c
RostersOf(rms, c) == {r \in DOMAIN rms : IndexOf(rms[r], c) # 0}

\* C12: a connection is listed in the roster of at most one session,
\* userToRoom names exactly the session whose users map holds it, and a join
\* issued while joined to a session takes the connection off the roster of
\* the session it was in.
C12_NoDualMembership ==
    [][/\ \A c \in Conns :
            /\ Cardinality(RostersOf(rooms', c)) <= 1
            /\ \A r \in RoomIds :
                  (r \in RostersOf(rooms', c)) <=> (getRoomIdForUser(userToRoom', c) = r)
       /\ (last'.op = "join_room" /\ currentRoomId[last'.conn] \notin {Undefined, last'.room})
            => currentRoomId[last'.conn] \notin RostersOf(rooms', last'.conn)
      ]_vars

\* C13: removeUser on a connection that is in no room changes none of the
\* three maps, and removeUser applied twice leaves them as one application does.
C13_LeaveIdempotent ==
    \A c \in Conns :
        LET once == RM_removeUser(RoomManagerState, c)
        IN /\ RM_removeUser(once, c) = once
           /\ getRoomIdForUser(userToRoom, c) = Undefined => once = RoomManagerState

C13_Witness ==
    /\ last.op = "disconnect"
    /\ last.ok
    /\ getRoomIdForUser(userToRoom, last.conn) = Undefined
    /\ \E d \in Conns : getRoomIdForUser(userToRoom, d) # Undefined
    /\ \E d \in Conns :
          RM_removeUser(RoomManagerState, d) # RoomManagerState
    /\ RM_removeUser(RoomManagerState, last.conn) = RoomManagerState

\* the events a client sends once connected, join_room apart
InboundEvents ==
    {"draw_line", "draw_finish", "erase", "cursor_move", "undo", "redo", "clear_canvas"}

\* the step handles an inbound event of a socket whose currentRoomId is undefined
HandlesUnjoined ==
    last'.op \in InboundEvents /\ currentRoomId[last'.conn] = Undefined

\* C14: an inbound event of a connection that has joined no session changes
\* the history and redoStack of no session and is sent to no other connection.
C14_UnjoinedNeverReachLog ==
    [][HandlesUnjoined =>
          /\ roomHistories' = roomHistories
          /\ nextId' = nextId
          /\ \A i \in 1 .. Len(emitted') : emitted'[i].to \subseteq {last'.conn}
      ]_vars

C14_Witness ==
    /\ last.op \in {"draw_finish", "erase", "undo", "clear_canvas"}
    /\ ~last.ok
    /\ currentRoomId[last.conn] = Undefined
    /\ \E d \in Conns \ {last.conn} :
          currentRoomId[d] = "main" /\ d \in sioRooms["main"]
    /\ Len(Entries("main")) >= 1
    /\ emitted = <<>>

\* C15: an inbound event of a connection that has joined no session is
\* answered with an error, to the caller and to nobody else.
C15_UnjoinedGetsError ==
    [][HandlesUnjoined =>
          /\ \/ acked'.conn = last'.conn
             \/ \E i \in 1 .. Len(emitted') : emitted'[i].to = {last'.conn}
          /\ \A i \in 1 .. Len(emitted') : emitted'[i].to \subseteq {last'.conn}
      ]_vars

\* the sockets whose gateway state is Joined to room r
JoinedTo(r) == {c \in Conns : conn[c] = "open" /\ currentRoomId[c] = r}

\* C16: after an undo, redo or clear handled for a connection joined to a
\* session, a history_sync carrying the session's entries as they now are is
\* sent to every connection joined to that session, the originator included.
C16_SyncToAllMembers ==
    (last.op \in {"undo", "redo", "clear_canvas"} /\ last.ok) =>
        \E i \in Sent(emitted, "history_sync") :
            /\ emitted[i].to = JoinedTo(last.room)
            /\ last.conn \in emitted[i].to
            /\ emitted[i].data = Entries(last.room)

\* C17: when a joined connection submits draw_finish, every other connection
\* joined to the same session is sent an event that carries the finished stroke.
C17_FinishedStrokeBroadcast ==
    (last.op = "draw_finish" /\ last.ok) =>
        \A d \in JoinedTo(last.room) \ {last.conn} :
            \E i \in Sent(emitted, "draw_finish") \cup Sent(emitted, "draw_line") :
                /\ d \in emitted[i].to
                /\ emitted[i].data.userId = last.conn
                /\ emitted[i].data.isFinished

\* the socket ids listed in a users_update payload
UserIds(users) == {users[i].id : i \in 1 .. Len(users)}

\* C18: after a successful join to a session, a users_update is sent to every
\* member of the session, the joiner included; its payload is the session's
\* membership after the join, with the joiner in it exactly once.
C18_RosterUpdateOnJoin ==
    (last.op = "join_room" /\ last.ok) =>
        \E i \in Sent(emitted, "users_update") :
            /\ emitted[i].to = JoinedTo(last.room)
            /\ last.conn \in emitted[i].to
            /\ emitted[i].data = getUsersInRoom(rooms, last.room)
            /\ UserIds(emitted[i].data) = JoinedTo(last.room)
            /\ Cardinality({k \in 1 .. Len(emitted[i].data) :
                               emitted[i].data[k].id = last.conn}) = 1

\* the step makes socket c leave room r: its disconnect while joined to r,
\* or its join_room for another room while joined to r
Leaves(c, r) ==
    /\ last'.conn = c
    /\ currentRoomId[c] = r
    /\ \/ last'.op = "disconnect"
       \/ last'.op = "join_room" /\ last'.room # r

\* C19: when a joined connection leaves a session, by disconnecting or by
\* joining again, it is off the session's roster afterwards and every member
\* that remains is sent a users_update that does not list it; leaving once
\* more changes nothing.
C19_LeaveUpdatesRoster ==
    [][\A c \in Conns, r \in RoomIds :
          Leaves(c, r) =>
             /\ c \notin UserIds(getUsersInRoom(rooms', r))
             /\ \E i \in Sent(emitted', "users_update") :
                   /\ emitted'[i].to =
                         {d \in Conns \ {c} : conn'[d] = "open" /\ currentRoomId'[d] = r}
                   /\ c \notin UserIds(emitted'[i].data)
                   /\ emitted'[i].data = getUsersInRoom(rooms', r)
             /\ LET rm == [rooms |-> rooms', userToRoom |-> userToRoom',
                           socketToUser |-> socketToUser']
                IN RM_removeUser(rm, c).rooms[r] = rooms'[r]
      ]_vars

\* C20: whatever a handler sends for a session (stroke, erase and cursor
\* echoes, history_sync, users_update, canvas_cleared) goes only to
\* connections that are joined to that session: the session the requester
\* was in, or the one it has just joined.
C20_NoCrossSessionDelivery ==
    [][\A i \in 1 .. Len(emitted') :
          \E r \in {currentRoomId[last'.conn], last'.room} \ {Undefined} :
              emitted'[i].to \subseteq
                  {d \in Conns : conn'[d] = "open" /\ currentRoomId'[d] = r}
      ]_vars

C20_Witness ==
    /\ last.ok
    /\ last.op \in {"undo", "redo", "clear_canvas", "join_room"}
    /\ emitted # <<>>
    /\ \A i \in 1 .. Len(emitted) : emitted[i].to = {last.conn}
    /\ Len(Entries(last.room)) >= 1
    /\ \E d \in Conns \ {last.conn} :
          conn[d] = "open" /\ asked[d] = "room2" /\ currentRoomId[d] = Undefined

\* the event a handler relays to the peers of the sender
EchoOf(op) == IF op = "cursor_move" THEN "cursor_update" ELSE op

\* C21: the echo of a draw_line, erase or cursor_move of a joined connection
\* is addressed to every other connection joined to the same session, and
\* nothing of it is addressed to the sender.
C21_EchoToOthersOnly ==
    (last.op \in {"draw_line", "erase", "cursor_move"} /\ last.ok) =>
        /\ \E i \in Sent(emitted, EchoOf(last.op)) :
              emitted[i].to = JoinedTo(last.room) \ {last.conn}
        /\ \A i \in 1 .. Len(emitted) : last.conn \notin emitted[i].to

\* C22: handling draw_line or cursor_move leaves the history and redoStack of
\* every session, and every roster, as they were.
C22_EphemeralBypassLog ==
    [][(last'.op \in {"draw_line", "cursor_move"}) =>
          /\ roomHistories' = roomHistories
          /\ nextId' = nextId
          /\ rooms' = rooms
          /\ userToRoom' = userToRoom
      ]_vars

C22_Witness ==
    /\ last.op \in {"draw_line", "cursor_move"}
    /\ last.ok
    /\ Len(Entries(last.room)) >= 1
    /\ RedoStack(last.room) # <<>>
    /\ \E i \in 1 .. Len(emitted) : emitted[i].to # {}

InsertByTimestamp(q, x) ==
    LET n == Cardinality({i \in 1 .. Len(q) : q[i].timestamp <= x.timestamp})
    IN SubSeq(q, 1, n) \o <<x>> \o SubSeq(q, n + 1, Len(q))

\* Array.prototype.sort((a, b) => a.timestamp - b.timestamp): a stable sort
SortByTimestamp(q) ==
    LET F[i \in 0 .. Len(q)] ==
            IF i = 0 THEN <<>> ELSE InsertByTimestamp(F[i - 1], q[i])
    IN F[Len(q)]

\* the client's redrawAll: the draw and erase actions of the history it
\* holds, in the order in which it replays them
redrawAll(history) ==
    SortByTimestamp(SelectSeq(history, LAMBDA a : a.type \in {STROKE_DRAW, STROKE_ERASE}))

\* HistoryStore.getCurrentState: the strokes of the draw and erase actions
getCurrentState(s) ==
    LET acts == SelectSeq(s.history, LAMBDA a : a.type \in {STROKE_DRAW, STROKE_ERASE})
    IN SortByTimestamp([i \in 1 .. Len(acts) |-> acts[i].data])

\* C24: a replay of a log applies its draw and erase actions in the order in
\* which they were appended, whatever their timestamps.
C24_ReplayInLogOrder ==
    \A r \in DOMAIN roomHistories :
        /\ redrawAll(HS_getHistory(roomHistories[r])) = Entries(r)
        /\ getCurrentState(roomHistories[r])
              = [i \in 1 .. Len(Entries(r)) |-> Entries(r)[i].data]

\* what one whole request does to the log <<h, rs>> of the session it is for
WholeLogStep(op, h, rs, h2, rs2) ==
    CASE op \in {"draw_finish", "erase"} ->
            /\ Len(h2) = Len(h) + 1
            /\ Front(h2) = h
            /\ Last(h2).id = nextId
            /\ rs2 = <<>>
      [] op = "undo" ->
            IF h = <<>> THEN h2 = h /\ rs2 = rs
            ELSE h2 = Front(h) /\ rs2 = Append(rs, Last(h))
      [] op = "redo" ->
            IF rs = <<>> THEN h2 = h /\ rs2 = rs
            ELSE h2 = Append(h, Last(rs)) /\ rs2 = Front(rs)
      [] op = "clear_canvas" -> h2 = <<>> /\ rs2 = <<>>
      [] OTHER -> h2 = h /\ rs2 = rs

\* what one whole request of socket c does to the roster of its session
WholeRosterStep(op, c, us, us2) ==
    CASE op = "join_room" ->
            /\ UserIds(us2) = UserIds(us) \cup {c}
            /\ Len(us2) = Cardinality(UserIds(us2))
            /\ \A i \in 1 .. Len(us) : us[i].id # c => us2[i] = us[i]
      [] op = "disconnect" -> us2 = SelectSeq(us, LAMBDA u : u.id # c)
      [] OTHER -> us2 = us

\* C25: whatever the interleaving of the connections' requests, every step
\* of the server applies one request, whole, to the log and roster of the one
\* session it is for, and leaves every other session as it was.
C25_WholeRequests ==
    [][\A r \in RoomIds :
          IF last'.ok /\ last'.room = r
          THEN /\ WholeLogStep(last'.op, Entries(r), RedoStack(r),
                               EntriesAfter(r), RedoStackAfter(r))
               /\ WholeRosterStep(last'.op, last'.conn, getUsersInRoom(rooms, r),
                                  getUsersInRoom(rooms', r))
          ELSE /\ EntriesAfter(r) = Entries(r)
               /\ RedoStackAfter(r) = RedoStack(r)
               /\ getUsersInRoom(rooms', r) = getUsersInRoom(rooms, r)
      ]_vars

C25_Witness ==
    /\ last.op \in {"undo", "redo"}
    /\ last.ok
    /\ Cardinality(JoinedTo(last.room)) = 2
    /\ Len(Entries(last.room)) >= 1
    /\ Len(RedoStack(last.room)) >= 1
    /\ Last(Entries(last.room)).userId # Last(RedoStack(last.room)).userId
    /\ Len(getUsersInRoom(rooms, last.room)) = 2

\* C26: handling a disconnect leaves the history and redoStack of every
\* session as they were, and an undo or redo by a remaining member still
\* moves an action whose author has gone.
C26_DisconnectKeepsLog ==
    [][/\ last'.op = "disconnect" => roomHistories' = roomHistories
       /\ \A r \in RoomIds :
             (Handles("undo") /\ last'.room = r /\ Entries(r) # <<>>
                /\ conn[Last(Entries(r)).userId] = "idle")
             => EntriesAfter(r) = Front(Entries(r))
       /\ \A r \in RoomIds :
             (Handles("redo") /\ last'.room = r /\ RedoStack(r) # <<>>
                /\ conn[Last(RedoStack(r)).userId] = "idle")
             => EntriesAfter(r) = Append(Entries(r), Last(RedoStack(r)))
      ]_vars

C26_Witness ==
    /\ last.op = "disconnect"
    /\ last.ok
    /\ \E i \in 1 .. Len(Entries(last.room)) :
          Entries(last.room)[i].userId = last.conn
    /\ \E i \in 1 .. Len(RedoStack(last.room)) :
          RedoStack(last.room)[i].userId = last.conn
    /\ JoinedTo(last.room) # {}

\* C27: a join_room that names a session that cannot be resolved is reported
\* to the requester and changes nothing else: no roster, log or socket.io
\* room, no event to any other connection, and a requester that was joined
\* stays in the session and in its socket.io room.
C27_FailedJoinHasNoEffect ==
    [][(last'.op = "join_room" /\ ~last'.ok) =>
          /\ acked'.conn = last'.conn
          /\ rooms' = rooms
          /\ userToRoom' = userToRoom
          /\ roomHistories' = roomHistories
          /\ currentRoomId' = currentRoomId
          /\ sioRooms' = sioRooms
          /\ \A i \in 1 .. Len(emitted') : emitted'[i].to \subseteq {last'.conn}
      ]_vars

\* what a HistoryStore method hands to its caller: getHistory a fresh array
\* ([...this.history]), undo and redo the array this.history itself
ReturnsInternalArray(op) == op \in {"undo", "redo"}

\* the sequence read, after the step, through what the latest HistoryStore
\* operation handed out: this.history as it now is when the caller holds that
\* very array and the step has not replaced it (clear assigns a new one), the
\* returned elements otherwise
HeldAfter(r) ==
    IF ReturnsInternalArray(lastLog.op) /\ last'.op # "clear_canvas"
    THEN EntriesAfter(r)
    ELSE lastLog.ret

\* C28: a sequence handed out by undo or redo still reads the same after any
\* later append, undo, redo or clear on that log.
C28_HandedOutIsImmutable ==
    [][\A r \in RoomIds :
          (/\ lastLog.op \in {"undo", "redo"}
           /\ lastLog.room = r
           /\ last'.ok
           /\ last'.room = r
           /\ last'.op \in {"draw_finish", "erase", "undo", "redo", "clear_canvas"})
          => HeldAfter(r) = lastLog.ret
      ]_vars

\* the step has appended an action of socket c, with a fresh id, to the log
\* of the session c is in
Stored(c) ==
    LET r == currentRoomId[c]
    IN /\ r # Undefined
       /\ Len(EntriesAfter(r)) = Len(Entries(r)) + 1
       /\ Last(EntriesAfter(r)).id = nextId
       /\ Last(EntriesAfter(r)).type = STROKE_DRAW
       /\ Last(EntriesAfter(r)).data.userId = c

\* C29: a draw_finish is acknowledged exactly when its stroke has been
\* appended to the log of the sender's current session.
C29_AckMeansStored ==
    [][last'.op = "draw_finish" =>
          /\ acked'.conn = last'.conn <=> Stored(last'.conn)
          /\ acked'.conn \in {last'.conn, Undefined}
      ]_vars

C29_Witness ==
    /\ last.op = "draw_finish"
    /\ last.ok
    /\ acked = Ack(last.conn, "ok")
    /\ Last(Entries(last.room)).id = nextId - 1
    /\ Last(Entries(last.room)).data.userId = last.conn
    /\ Len(Entries(last.room)) = 2

\* the events the server fans out for ephemeral input
EphemeralEvents == {"draw_line", "cursor_update"}

\* C30: in-progress stroke updates and cursor updates are sent volatile
\* (best effort), every other event is sent reliable.
C30_DeliveryClasses ==
    \A i \in 1 .. Len(emitted) :
        emitted[i].volatile <=> emitted[i].ev \in EphemeralEvents

\* C31: two members that are in the roster of one session at the same time
\* have different colours.
C31_DistinctColours ==
    \A r \in DOMAIN rooms :
        \A i, j \in 1 .. Len(rooms[r]) :
            i # j => rooms[r][i].color # rooms[r][j].color

\* C32: the in-progress updates of a gesture add nothing to the log: a
\* draw_line or erase that carries an unfinished stroke leaves every log as
\* it was, and every action in a log carries a stroke with isFinished true.
C32_OneActionPerGesture ==
    [][/\ (/\ last'.op \in {"draw_line", "erase"}
           /\ last'.ok
           /\ \E i \in 1 .. Len(emitted') : ~emitted'[i].data.isFinished)
          => roomHistories' = roomHistories
       /\ \A r \in RoomIds :
             /\ \A i \in 1 .. Len(EntriesAfter(r)) : EntriesAfter(r)[i].data.isFinished
             /\ \A i \in 1 .. Len(RedoStackAfter(r)) : RedoStackAfter(r)[i].data.isFinished
      ]_vars

\* C33: whenever every event the server has sent has been delivered, each
\* connection joined to a session holds a local history equal to the
\* session's entries on the server.
C33_ClientCopiesConverge ==
    (Quiet /\ \A c \in Conns : wire[c] = <<>>) =>
        \A c \in Conns :
            (conn[c] = "open" /\ currentRoomId[c] # Undefined)
                => clientHistory[c] = Entries(currentRoomId[c])

\* C34: between any two handler executions a live connection is in the
\* socket.io room of a session iff it is on the session's roster iff its
\* currentRoomId is that session, also after a join that failed.
C34_GroupMatchesRoster ==
    \A c \in Conns : \A r \in RoomIds :
        conn[c] = "open" =>
            /\ (c \in sioRooms[r]) <=> (r \in RostersOf(rooms, c))
            /\ (r \in RostersOf(rooms, c)) <=> (currentRoomId[c] = r)

\* C35: draw_finish, erase, undo, redo and clear_canvas reach a session's log
\* only for a connection that is then on the session's roster and in its
\* socket.io room; a connection that has left the room cannot change the log.
C35_MutationsByMembersOnly ==
    [][\A r \in RoomIds :
        /\ (/\ last'.op \in {"draw_finish", "erase", "undo", "redo", "clear_canvas"}
            /\ last'.ok
            /\ last'.room = r)
              => /\ r \in RostersOf(rooms, last'.conn)
                 /\ last'.conn \in sioRooms[r]
        /\ (EntriesAfter(r) # Entries(r) \/ RedoStackAfter(r) # RedoStack(r))
              => last'.conn \in sioRooms[r]
      ]_vars

\* a sequence back to front
Reverse(q) == [i \in 1 .. Len(q) |-> q[Len(q) + 1 - i]]

\* history followed by redoStack from its top down
Stacked(h, rs) == h \o Reverse(rs)

\* C36: every undo and every redo leaves entries followed by the reversed
\* redoStack as it was, and the number of actions on the two stacks together
\* changes only on draw_finish, erase and clear_canvas.
C36_UndoRedoRelocate ==
    [][\A r \in RoomIds :
        /\ (last'.room = r /\ (Handles("undo") \/ Handles("redo")))
              => Stacked(EntriesAfter(r), RedoStackAfter(r))
                    = Stacked(Entries(r), RedoStack(r))
        /\ (Len(EntriesAfter(r)) + Len(RedoStackAfter(r))
                # Len(Entries(r)) + Len(RedoStack(r)))
              => /\ last'.room = r
                 /\ last'.op \in {"draw_finish", "erase", "clear_canvas"}
      ]_vars

C36_Witness ==
    /\ last.op = "redo"
    /\ lastLog.op = "redo"
    /\ lastLog.preR = 2
    /\ Len(Entries(last.room)) = 1
    /\ Len(RedoStack(last.room)) = 1
    /\ Entries(last.room)[1].userId # last.conn

\* C37: in every reachable state of a session's log the action ids in
\* entries and redoStack together are pairwise distinct, so a snapshot never
\* holds a stroke twice.
C37_NoDuplicateActions ==
    \A r \in RoomIds :
        LET all == Entries(r) \o RedoStack(r)
        IN /\ \A i, j \in 1 .. Len(all) : i # j => all[i].id # all[j].id
           /\ \A i, j \in 1 .. Len(HS_getHistory([history |-> Entries(r),
                                                 redoStack |-> RedoStack(r)])) :
                 i # j => Entries(r)[i] # Entries(r)[j]

C37_Witness ==
    /\ last.op = "undo"
    /\ lastLog.preH = 2
    /\ Len(Entries(last.room)) = 1
    /\ Len(RedoStack(last.room)) = 1
    /\ Entries(last.room)[1].id # RedoStack(last.room)[1].id

\* C38: with a server clock that never goes backwards, entries is always in
\* non-decreasing order of the actions' timestamps, after any mix of undo,
\* redo and append, and redrawAll's stable sort replays it in log order.
C38_MonotoneClockKeepsOrder ==
    \A r \in RoomIds :
        /\ \A i, j \in 1 .. Len(Entries(r)) :
              i < j => Entries(r)[i].timestamp <= Entries(r)[j].timestamp
        /\ redrawAll(Entries(r)) = Entries(r)

C38_Witness ==
    /\ last.op = "redo"
    /\ lastLog.preR >= 1
    /\ Len(Entries(last.room)) = 2
    /\ Entries(last.room)[1].timestamp < Entries(last.room)[2].timestamp
    /\ redrawAll(Entries(last.room)) = Entries(last.room)

====
